---- MODULE Spec2Model ----
(***************************************************************************)
(* A model of the Fetcher class of src/src/fetcher.js: the URL template    *)
(* filter chain, setOptions, and fetchVAST with its single suspension      *)
(* point (the await of urlHandler.get).                                    *)
(*                                                                         *)
(* JavaScript values are modelled as strings ("undefined", "null", "",     *)
(* "boom", "500", ...), except the values the code does arithmetic on      *)
(* (Date.now(), the duration, the timeout), which are integers.  A         *)
(* JavaScript object is a function from its keys to its values; a key      *)
(* that is absent reads as undefined.                                      *)
(***************************************************************************)
EXTENDS Integers, Sequences, FiniteSets, TLC

\* ------------------------------------------------------------------ bounds
\* Number of fetchVAST calls in one behaviour.
NumAttempts == 2
\* Longest filter chain the model builds (the code has no limit).
MaxFilters == 2
\* Number of callable adds counted since construction or the last clear.
MaxAdds == 3
\* Last value of the clock (Date.now()).
MaxClock == 1

\* ------------------------------------------------------------------ values
Undefined == "undefined"
Null == "null"

\* JavaScript truthiness of a (string-encoded) value.
Truthy(v) == v \notin {Undefined, Null, "", "0", "false"}

\* a || b
OrElse(a, b) == IF Truthy(a) THEN a ELSE b

\* The empty object {}.
EmptyObj == [k \in {} |-> Undefined]

\* obj.k, undefined when the key is absent.
Prop(obj, k) == IF k \in DOMAIN obj THEN obj[k] ELSE Undefined

\* Mutant of SpreadOver: the first object's value survives a collision.
SpreadOver_FirstWins(a, b) ==
  [k \in (DOMAIN a) \cup (DOMAIN b) |-> IF k \in DOMAIN a THEN a[k] ELSE b[k]]

\* { ...a, ...b }: the keys of both, b's value on a collision (object
\* literals assign in source order, so the later property wins).
SpreadOver(a, b) ==
  [k \in (DOMAIN a) \cup (DOMAIN b) |-> IF k \in DOMAIN b THEN b[k] ELSE a[k]]

\* Math.round on the difference of two Date.now() values (integers).
Round(n) == n

Front(s) == SubSeq(s, 1, Len(s) - 1)
Last(s) == s[Len(s)]

\* ------------------------------------------------------------------ filters
\* The callables a caller registers: "fa" appends "a", "fb" appends "b" (so
\* the order of composition shows), "fthrow" throws.
Filters == {"fa", "fb", "fthrow"}
\* Values for which typeof v === 'function' is false.
NonCallables == {Undefined, "str"}

IsFunction(v) == v \in Filters

FilterThrows(f) == f = "fthrow"

\* filter(url) for a filter that returns.
FilterCall(f, url) ==
  CASE f = "fa" -> url \o "a"
    [] f = "fb" -> url \o "b"
    [] OTHER -> url

VARIABLES
  URLTemplateFilters,  \* this.URLTemplateFilters
  urlHandler,          \* this.urlHandler ("undefined" until setOptions)
  fetchingOptions,     \* this.fetchingOptions
  nAdds,               \* history: callable adds since construction / clear
  nRemoves,            \* history: removeLast calls that found a filter, same
  now,                 \* Date.now()
  pc,                  \* per attempt: "idle", "awaiting", "done"
  local,               \* per attempt: the locals of the executor closure
  trace,               \* per attempt: the calls made, in order
  promise,             \* per attempt: the promise fetchVAST returned
  executor             \* per attempt: the async executor's own promise

vars == <<URLTemplateFilters, urlHandler, fetchingOptions, nAdds, nRemoves,
          now, pc, local, trace, promise, executor>>

thisVars == <<URLTemplateFilters, urlHandler, fetchingOptions>>
histVars == <<nAdds, nRemoves>>
attemptVars == <<pc, local, trace, promise, executor>>

AttemptIds == 1..NumAttempts

\* ------------------------------------------------------------------ options
DEFAULT_TIMEOUT == 120000

\* this.fetchingOptions before setOptions has run: the field is undefined.
NoOptions == [defined |-> FALSE, timeout |-> 0, withCredentials |-> FALSE]

\* The options bags a caller passes to setOptions: an object whose absent
\* keys are undefined.  timeout is a number, the rest string-encoded.
OptionBags ==
  { EmptyObj,
    [timeout |-> 5000, withCredentials |-> "yes", urlHandler |-> "custom"],
    [timeout |-> 0, withCredentials |-> "false", urlhandler |-> "custom2"] }

\* Mutant of TimeoutOf: the default is for a missing timeout only, a falsy
\* one is kept.
TimeoutOf_Missing(options) ==
  IF "timeout" \in DOMAIN options THEN options["timeout"] ELSE DEFAULT_TIMEOUT

\* options.timeout || DEFAULT_TIMEOUT
TimeoutOf(options) ==
  IF "timeout" \in DOMAIN options /\ options["timeout"] # 0
    THEN options["timeout"] ELSE DEFAULT_TIMEOUT

\* ------------------------------------------------------------------ chain

\* constructor()
Init ==
  /\ URLTemplateFilters = <<>>
  /\ urlHandler = Undefined
  /\ fetchingOptions = NoOptions
  /\ nAdds = 0
  /\ nRemoves = 0
  /\ now = 0
  /\ pc = [a \in AttemptIds |-> "idle"]
  /\ local = [a \in AttemptIds |-> EmptyObj]
  /\ trace = [a \in AttemptIds |-> <<>>]
  /\ promise = [a \in AttemptIds |-> [state |-> "none", value |-> Undefined]]
  /\ executor = [a \in AttemptIds |-> [state |-> "none", value |-> Undefined]]

\* Mutant of setOptions: a timeout that is absent from the bag keeps the
\* value configured before.
setOptions_Merges(options) ==
  /\ urlHandler' = OrElse(Prop(options, "urlHandler"),
                          OrElse(Prop(options, "urlhandler"), "default"))
  /\ fetchingOptions' =
       [defined |-> TRUE,
        timeout |-> IF fetchingOptions.defined /\ "timeout" \notin DOMAIN options
                      THEN fetchingOptions.timeout ELSE TimeoutOf(options),
        withCredentials |-> Truthy(Prop(options, "withCredentials"))]
  /\ UNCHANGED <<URLTemplateFilters, histVars, now, attemptVars>>

\* setOptions(options = {})
setOptions(options) ==
  /\ urlHandler' = OrElse(Prop(options, "urlHandler"),
                          OrElse(Prop(options, "urlhandler"), "default"))
  /\ fetchingOptions' =
       [defined |-> TRUE,
        timeout |-> TimeoutOf(options),
        withCredentials |-> Truthy(Prop(options, "withCredentials"))]
  /\ UNCHANGED <<URLTemplateFilters, histVars, now, attemptVars>>

\* Mutant of addURLTemplateFilter: the function is put at the head.
addURLTemplateFilter_Prepends(filter) ==
  /\ IsFunction(filter) => (Len(URLTemplateFilters) < MaxFilters /\ nAdds < MaxAdds)
  /\ IF IsFunction(filter)
       THEN /\ URLTemplateFilters' = <<filter>> \o URLTemplateFilters
            /\ nAdds' = nAdds + 1
       ELSE UNCHANGED <<URLTemplateFilters, nAdds>>
  /\ UNCHANGED <<urlHandler, fetchingOptions, nRemoves, now, attemptVars>>

\* Mutant of addURLTemplateFilter: the typeof test is missing.
addURLTemplateFilter_Unguarded(filter) ==
  /\ Len(URLTemplateFilters) < MaxFilters
  /\ IsFunction(filter) => nAdds < MaxAdds
  /\ URLTemplateFilters' = Append(URLTemplateFilters, filter)
  /\ nAdds' = IF IsFunction(filter) THEN nAdds + 1 ELSE nAdds
  /\ UNCHANGED <<urlHandler, fetchingOptions, nRemoves, now, attemptVars>>

\* addURLTemplateFilter(filter)
addURLTemplateFilter(filter) ==
  /\ IsFunction(filter) => (Len(URLTemplateFilters) < MaxFilters /\ nAdds < MaxAdds)
  /\ IF IsFunction(filter)
       THEN /\ URLTemplateFilters' = Append(URLTemplateFilters, filter)
            /\ nAdds' = nAdds + 1
       ELSE UNCHANGED <<URLTemplateFilters, nAdds>>
  /\ UNCHANGED <<urlHandler, fetchingOptions, nRemoves, now, attemptVars>>

\* Array.prototype.pop: drops the last element, leaves an empty array alone.
Pop(arr) == IF arr = <<>> THEN arr ELSE Front(arr)

\* removeLastURLTemplateFilter()
removeLastURLTemplateFilter ==
  /\ URLTemplateFilters' = Pop(URLTemplateFilters)
  /\ nRemoves' = IF URLTemplateFilters = <<>> THEN nRemoves ELSE nRemoves + 1
  /\ UNCHANGED <<urlHandler, fetchingOptions, nAdds, now, attemptVars>>

\* countURLTemplateFilters()
countURLTemplateFilters == Len(URLTemplateFilters)

\* clearURLTemplateFilters()
clearURLTemplateFilters ==
  /\ URLTemplateFilters' = <<>>
  /\ nAdds' = 0
  /\ nRemoves' = 0
  /\ UNCHANGED <<urlHandler, fetchingOptions, now, attemptVars>>

\* ------------------------------------------------------------------ fetchVAST
\* The argument objects of fetchVAST (without the emitter): absent keys are
\* undefined and take the defaults of the parameter list.
Requests ==
  { [url |-> "u", maxWrapperDepth |-> 10],
    [url |-> "v", maxWrapperDepth |-> 10, wrapperDepth |-> 1,
     previousUrl |-> "u", wrapperAd |-> "ad"] }

\* wrapperDepth = 0, previousUrl = null, wrapperAd = null
WithDefaults(req) ==
  [url |-> req["url"],
   maxWrapperDepth |-> req["maxWrapperDepth"],
   wrapperDepth |-> IF "wrapperDepth" \in DOMAIN req THEN req["wrapperDepth"] ELSE 0,
   previousUrl |-> IF "previousUrl" \in DOMAIN req THEN req["previousUrl"] ELSE Null,
   wrapperAd |-> IF "wrapperAd" \in DOMAIN req THEN req["wrapperAd"] ELSE Null]

\* What the caller's emitter does: return, or throw on one of the events.
Emitters == {"returns", "throwsOnResolving", "throwsOnResolved"}

EmitterThrows(emitter, name) ==
  \/ emitter = "throwsOnResolving" /\ name = "VAST-resolving"
  \/ emitter = "throwsOnResolved" /\ name = "VAST-resolved"

\* What this.urlHandler.get(url, options) does when it is called: return a
\* promise (or a plain value, which await treats alike), or throw.
GetCalls == {"returns", "throws"}

\* The values the awaited promise fulfils with: a TransportResult object,
\* or undefined.  DataPending and DataRejected stand for `data` while the
\* await has not returned and when it threw.
DataUndefined == [kind |-> "undefined", obj |-> EmptyObj]
DataPending == [kind |-> "pending", obj |-> EmptyObj]
DataRejected == [kind |-> "rejected", obj |-> EmptyObj]
DataObject(o) == [kind |-> "object", obj |-> o]

TransportResults ==
  { DataObject([error |-> Null, xml |-> "<VAST/>", details |-> [byteLength |-> "42"]]),
    DataObject([xml |-> "<VAST/>",
                details |-> [byteLength |-> "42", statusCode |-> "200"]]),
    DataObject([error |-> "boom", statusCode |-> "500"]),
    DataObject([error |-> "boom", statusCode |-> "500",
                details |-> [error |-> "derr", url |-> "durl", previousUrl |-> "dprev",
                             wrapperDepth |-> 7, duration |-> 99,
                             statusCode |-> "204"]]),
    DataObject([xml |-> "<VAST/>", details |-> [error |-> "derr", byteLength |-> "7"]]),
    DataObject([error |-> "", xml |-> "<VAST/>"]),
    DataUndefined }

\* data?.k
OptProp(data, k) == IF data.kind = "object" THEN Prop(data.obj, k) ELSE Undefined

\* data?.details as an object to spread or to read: spreading undefined adds
\* no key, and undefined?.byteLength is undefined.
DetailsOf(data) ==
  IF data.kind = "object" /\ "details" \in DOMAIN data.obj
    THEN data.obj["details"] ELSE EmptyObj

\* The steps an attempt records in its trace.
FilterStep(f, arg) == [op |-> "filter", f |-> f, arg |-> arg]
EmitStep(name, payload, threw) ==
  [op |-> "emit", name |-> name, payload |-> payload, threw |-> threw]
GetStep(url, options, threw) ==
  [op |-> "get", url |-> url, options |-> options, threw |-> threw]
UpdateStep(byteLength, duration) ==
  [op |-> "updateEstimatedBitrate", byteLength |-> byteLength, duration |-> duration]
SettleStep(how, value) == [op |-> how, value |-> value]
LogStep(error) == [op |-> "console.error", error |-> error]

\* this.URLTemplateFilters.forEach((filter) => { url = filter(url); }), from
\* index i on: the url reached, the calls made, and whether a filter threw
\* (which ends the loop).
RECURSIVE ForEachFrom(_, _, _, _)
ForEachFrom(filters, i, url, calls) ==
  IF i > Len(filters)
    THEN [url |-> url, calls |-> calls, threw |-> FALSE]
    ELSE IF FilterThrows(filters[i])
      THEN [url |-> url, calls |-> Append(calls, FilterStep(filters[i], url)),
            threw |-> TRUE]
      ELSE ForEachFrom(filters, i + 1, FilterCall(filters[i], url),
                       Append(calls, FilterStep(filters[i], url)))

\* Mutant of ApplyFilters: the chain is walked from its tail.
ApplyFilters_Reversed(filters, url) ==
  ForEachFrom([i \in 1..Len(filters) |-> filters[Len(filters) + 1 - i]], 1, url, <<>>)

ApplyFilters(filters, url) == ForEachFrom(filters, 1, url, <<>>)

\* The payload of 'VAST-resolving'.
ResolvingPayload(url, req, options) ==
  [url |-> url,
   previousUrl |-> req.previousUrl,
   wrapperDepth |-> req.wrapperDepth,
   maxWrapperDepth |-> req.maxWrapperDepth,
   timeout |-> options.timeout,
   wrapperAd |-> req.wrapperAd]

\* Mutant of ResolvedFields: the error and the status code are passed on as
\* they are, without `|| null`.
ResolvedFields_Raw(url, req, data, requestDuration) ==
  [url |-> url,
   previousUrl |-> req.previousUrl,
   wrapperDepth |-> req.wrapperDepth,
   error |-> OptProp(data, "error"),
   duration |-> requestDuration,
   statusCode |-> OptProp(data, "statusCode")]

\* The fixed fields of 'VAST-resolved', as the object literal lists them
\* before the spread.
ResolvedFields(url, req, data, requestDuration) ==
  [url |-> url,
   previousUrl |-> req.previousUrl,
   wrapperDepth |-> req.wrapperDepth,
   error |-> OrElse(OptProp(data, "error"), Null),
   duration |-> requestDuration,
   statusCode |-> OrElse(OptProp(data, "statusCode"), Null)]

\* The payload of 'VAST-resolved': the literal ends with ...data?.details.
ResolvedPayload(url, req, data, requestDuration) ==
  SpreadOver(ResolvedFields(url, req, data, requestDuration), DetailsOf(data))

Pending == [state |-> "pending", value |-> Undefined]
Fulfilled(v) == [state |-> "fulfilled", value |-> v]
Rejected(v) == [state |-> "rejected", value |-> v]

\* resolve(v) / reject(v) of a promise: only the first call settles it.
Settle(p, step) ==
  IF p.state # "pending" THEN p
  ELSE IF step.op = "reject" THEN Rejected(step.value)
  ELSE Fulfilled(step.value)

\* Mutant of Caught: the catch block also rejects the promise with the error.
Caught_Rejects(steps, error) ==
  steps \o <<LogStep(error), SettleStep("reject", error)>>

\* catch (error) { console.error(error); }: the steps made so far, the log
\* line, and no call of resolve or reject.
Caught(steps, error) == Append(steps, LogStep(error))

\* Mutant of Settlement: the error is wrapped before it is passed to reject.
Settlement_Wrapped(obj) ==
  IF Truthy(Prop(obj, "error"))
    THEN SettleStep("reject", "Error: " \o obj["error"])
    ELSE SettleStep("resolve", Prop(obj, "xml"))

\* if (data.error) reject(data.error); else resolve(data.xml);
Settlement(obj) ==
  IF Truthy(Prop(obj, "error"))
    THEN SettleStep("reject", obj["error"])
    ELSE SettleStep("resolve", Prop(obj, "xml"))

\* Mutant of BitrateUpdate: reads byteLength from the result, not its details.
BitrateUpdate_TopLevel(data, requestDuration) ==
  UpdateStep(OptProp(data, "byteLength"), requestDuration)

\* updateEstimatedBitrate(data?.details?.byteLength, requestDuration)
BitrateUpdate(data, requestDuration) ==
  UpdateStep(Prop(DetailsOf(data), "byteLength"), requestDuration)

\* Mutant of BeforeAwait: the call of the emitter has a try of its own, the
\* transport is called after the emitter threw.
BeforeAwait_EmitterGuarded(filters, options, req, emitter, getCall) ==
  LET applied == ApplyFilters(filters, req.url)
      url == applied.url
      resolving == EmitStep("VAST-resolving", ResolvingPayload(url, req, options),
                            EmitterThrows(emitter, "VAST-resolving"))
      get == GetStep(url, options, getCall = "throws")
  IN  IF applied.threw
        THEN [url |-> url, steps |-> applied.calls, pc |-> "done",
              executor |-> Rejected("filterError")]
      ELSE IF ~options.defined
        THEN [url |-> url, steps |-> Caught(applied.calls, "TypeError"),
              pc |-> "done", executor |-> Fulfilled(Undefined)]
      ELSE IF get.threw
        THEN [url |-> url,
              steps |-> Caught(applied.calls \o <<resolving, get>>, "getError"),
              pc |-> "done", executor |-> Fulfilled(Undefined)]
      ELSE [url |-> url, steps |-> applied.calls \o <<resolving, get>>,
            pc |-> "awaiting", executor |-> Pending]

\* Mutant of BeforeAwait: the failure to read the timeout rejects the
\* promise.
BeforeAwait_RejectsUnconfigured(filters, options, req, emitter, getCall) ==
  LET applied == ApplyFilters(filters, req.url)
      url == applied.url
      resolving == EmitStep("VAST-resolving", ResolvingPayload(url, req, options),
                            EmitterThrows(emitter, "VAST-resolving"))
      get == GetStep(url, options, getCall = "throws")
  IN  IF applied.threw
        THEN [url |-> url, steps |-> applied.calls, pc |-> "done",
              executor |-> Rejected("filterError")]
      ELSE IF ~options.defined
        THEN [url |-> url,
              steps |-> Append(applied.calls, SettleStep("reject", "TypeError")),
              pc |-> "done", executor |-> Fulfilled(Undefined)]
      ELSE IF resolving.threw
        THEN [url |-> url,
              steps |-> Caught(Append(applied.calls, resolving), "emitterError"),
              pc |-> "done", executor |-> Fulfilled(Undefined)]
      ELSE IF get.threw
        THEN [url |-> url,
              steps |-> Caught(applied.calls \o <<resolving, get>>, "getError"),
              pc |-> "done", executor |-> Fulfilled(Undefined)]
      ELSE [url |-> url, steps |-> applied.calls \o <<resolving, get>>,
            pc |-> "awaiting", executor |-> Pending]

\* Mutant of BeforeAwait: urlHandler.get is invoked before 'VAST-resolving'
\* is emitted.
BeforeAwait_GetFirst(filters, options, req, emitter, getCall) ==
  LET applied == ApplyFilters(filters, req.url)
      url == applied.url
      resolving == EmitStep("VAST-resolving", ResolvingPayload(url, req, options),
                            EmitterThrows(emitter, "VAST-resolving"))
      get == GetStep(url, options, getCall = "throws")
  IN  IF applied.threw
        THEN [url |-> url, steps |-> applied.calls, pc |-> "done",
              executor |-> Rejected("filterError")]
      ELSE IF ~options.defined
        THEN [url |-> url, steps |-> Caught(applied.calls, "TypeError"),
              pc |-> "done", executor |-> Fulfilled(Undefined)]
      ELSE IF get.threw
        THEN [url |-> url,
              steps |-> Caught(Append(applied.calls, get), "getError"),
              pc |-> "done", executor |-> Fulfilled(Undefined)]
      ELSE IF resolving.threw
        THEN [url |-> url,
              steps |-> Caught(applied.calls \o <<get, resolving>>, "emitterError"),
              pc |-> "done", executor |-> Fulfilled(Undefined)]
      ELSE [url |-> url, steps |-> applied.calls \o <<get, resolving>>,
            pc |-> "awaiting", executor |-> Pending]

\* The executor from its first line to the await: the steps it makes, where
\* it stands then, and the state of the async function's own promise.
BeforeAwait(filters, options, req, emitter, getCall) ==
  LET applied == ApplyFilters(filters, req.url)
      url == applied.url
      resolving == EmitStep("VAST-resolving", ResolvingPayload(url, req, options),
                            EmitterThrows(emitter, "VAST-resolving"))
      get == GetStep(url, options, getCall = "throws")
  IN  IF applied.threw
        \* thrown outside the try: the async function's promise rejects
        THEN [url |-> url, steps |-> applied.calls, pc |-> "done",
              executor |-> Rejected("filterError")]
      ELSE IF ~options.defined
        \* this.fetchingOptions.timeout on undefined: a TypeError, caught
        THEN [url |-> url, steps |-> Caught(applied.calls, "TypeError"),
              pc |-> "done", executor |-> Fulfilled(Undefined)]
      ELSE IF resolving.threw
        THEN [url |-> url,
              steps |-> Caught(Append(applied.calls, resolving), "emitterError"),
              pc |-> "done", executor |-> Fulfilled(Undefined)]
      ELSE IF get.threw
        THEN [url |-> url,
              steps |-> Caught(applied.calls \o <<resolving, get>>, "getError"),
              pc |-> "done", executor |-> Fulfilled(Undefined)]
      ELSE [url |-> url, steps |-> applied.calls \o <<resolving, get>>,
            pc |-> "awaiting", executor |-> Pending]

\* Mutant of AfterAwait: the promise is settled before 'VAST-resolved' is
\* emitted.
AfterAwait_SettlesFirst(loc, data, requestDuration) ==
  LET resolved == EmitStep("VAST-resolved",
                           ResolvedPayload(loc.url, loc.req, data, requestDuration),
                           EmitterThrows(loc.emitter, "VAST-resolved"))
      update == BitrateUpdate(data, requestDuration)
  IN  IF data.kind # "object"
        THEN Caught(<<>>, "TypeError")
      ELSE IF resolved.threw
        THEN Caught(<<Settlement(data.obj), resolved>>, "emitterError")
      ELSE <<Settlement(data.obj), resolved, update>>

\* Mutant of AfterAwait: 'VAST-resolved' is emitted on the success path only.
AfterAwait_ResolvedOnSuccess(loc, data, requestDuration) ==
  LET resolved == EmitStep("VAST-resolved",
                           ResolvedPayload(loc.url, loc.req, data, requestDuration),
                           EmitterThrows(loc.emitter, "VAST-resolved"))
      update == BitrateUpdate(data, requestDuration)
  IN  IF data.kind # "object"
        THEN Caught(<<update>>, "TypeError")
      ELSE IF Truthy(Prop(data.obj, "error"))
        THEN <<update, Settlement(data.obj)>>
      ELSE IF resolved.threw
        THEN Caught(<<resolved>>, "emitterError")
      ELSE <<resolved, update, Settlement(data.obj)>>

\* Mutant of AfterAwait: optional chaining on the last reads too, a result
\* that is undefined fulfils the promise with undefined.
AfterAwait_ResolvesUndefined(loc, data, requestDuration) ==
  LET resolved == EmitStep("VAST-resolved",
                           ResolvedPayload(loc.url, loc.req, data, requestDuration),
                           EmitterThrows(loc.emitter, "VAST-resolved"))
      update == BitrateUpdate(data, requestDuration)
  IN  IF resolved.threw
        THEN Caught(<<resolved>>, "emitterError")
      ELSE IF data.kind # "object"
        THEN <<resolved, update, SettleStep("resolve", Undefined)>>
      ELSE <<resolved, update, Settlement(data.obj)>>

\* Mutant of AfterAwait: resolve is not called, a result without error
\* leaves the promise pending.
AfterAwait_NeverResolves(loc, data, requestDuration) ==
  LET resolved == EmitStep("VAST-resolved",
                           ResolvedPayload(loc.url, loc.req, data, requestDuration),
                           EmitterThrows(loc.emitter, "VAST-resolved"))
      update == BitrateUpdate(data, requestDuration)
  IN  IF resolved.threw
        THEN Caught(<<resolved>>, "emitterError")
      ELSE IF data.kind # "object"
        THEN Caught(<<resolved, update>>, "TypeError")
      ELSE IF Truthy(Prop(data.obj, "error"))
        THEN <<resolved, update, Settlement(data.obj)>>
      ELSE <<resolved, update>>

\* The executor after the await returned data: the steps it makes.
AfterAwait(loc, data, requestDuration) ==
  LET resolved == EmitStep("VAST-resolved",
                           ResolvedPayload(loc.url, loc.req, data, requestDuration),
                           EmitterThrows(loc.emitter, "VAST-resolved"))
      update == BitrateUpdate(data, requestDuration)
  IN  IF resolved.threw
        THEN Caught(<<resolved>>, "emitterError")
      ELSE IF data.kind # "object"
        \* data.error on undefined: a TypeError, caught
        THEN Caught(<<resolved, update>>, "TypeError")
      ELSE <<resolved, update, Settlement(data.obj)>>

\* The promise after the steps: resolve and reject settle it.
RECURSIVE AfterSteps(_, _)
AfterSteps(p, steps) ==
  IF steps = <<>> THEN p
  ELSE AfterSteps(IF Head(steps).op \in {"resolve", "reject"}
                    THEN Settle(p, Head(steps)) ELSE p,
                  Tail(steps))

\* The calls of fetchVAST take the attempt records in order.
NextAttempt(a) == pc[a] = "idle" /\ \A b \in AttemptIds : b < a => pc[b] # "idle"

\* Mutant of fetchVAST: the filters are taken off the chain as they are
\* applied.
fetchVAST_ConsumesFilters(a, request, emitter, getCall) ==
  /\ NextAttempt(a)
  /\ LET req == WithDefaults(request)
         ran == BeforeAwait(URLTemplateFilters, fetchingOptions, req, emitter, getCall)
     IN  /\ local' = [local EXCEPT ![a] =
                        [url |-> ran.url, req |-> req, emitter |-> emitter,
                         timeBeforeGet |-> now, filters |-> URLTemplateFilters,
                         data |-> DataPending, requestDuration |-> 0]]
         /\ trace' = [trace EXCEPT ![a] = ran.steps]
         /\ promise' = [promise EXCEPT ![a] = AfterSteps(Pending, ran.steps)]
         /\ executor' = [executor EXCEPT ![a] = ran.executor]
         /\ pc' = [pc EXCEPT ![a] = ran.pc]
  /\ URLTemplateFilters' = <<>>
  /\ UNCHANGED <<urlHandler, fetchingOptions, histVars, now>>

\* fetchVAST({url, maxWrapperDepth, emitter, ...}) up to the await (or to the
\* end, when something throws before it).  getCall is what urlHandler.get
\* does if it is reached.
fetchVAST(a, request, emitter, getCall) ==
  /\ NextAttempt(a)
  /\ LET req == WithDefaults(request)
         ran == BeforeAwait(URLTemplateFilters, fetchingOptions, req, emitter, getCall)
     IN  /\ local' = [local EXCEPT ![a] =
                        [url |-> ran.url, req |-> req, emitter |-> emitter,
                         timeBeforeGet |-> now, filters |-> URLTemplateFilters,
                         data |-> DataPending, requestDuration |-> 0]]
         /\ trace' = [trace EXCEPT ![a] = ran.steps]
         /\ promise' = [promise EXCEPT ![a] = AfterSteps(Pending, ran.steps)]
         /\ executor' = [executor EXCEPT ![a] = ran.executor]
         /\ pc' = [pc EXCEPT ![a] = ran.pc]
  /\ UNCHANGED <<thisVars, histVars, now>>

\* Mutant of fetchVASTResume: the url of 'VAST-resolved' is filtered again
\* with the chain as it is when the await ends.
fetchVASTResume_Refilters(a, data) ==
  /\ pc[a] = "awaiting"
  /\ LET again == [local[a] EXCEPT
                     !.url = ApplyFilters(URLTemplateFilters, local[a].req.url).url]
         steps == AfterAwait(again, data, Round(now - local[a].timeBeforeGet))
     IN  /\ trace' = [trace EXCEPT ![a] = @ \o steps]
         /\ promise' = [promise EXCEPT ![a] = AfterSteps(@, steps)]
  /\ local' = [local EXCEPT ![a].data = data,
                            ![a].requestDuration = Round(now - local[a].timeBeforeGet)]
  /\ executor' = [executor EXCEPT ![a] = Fulfilled(Undefined)]
  /\ pc' = [pc EXCEPT ![a] = "done"]
  /\ UNCHANGED <<thisVars, histVars, now>>

\* The rest of the executor after `await this.urlHandler.get(...)` fulfils
\* with data.
fetchVASTResume(a, data) ==
  /\ pc[a] = "awaiting"
  /\ LET steps == AfterAwait(local[a], data, Round(now - local[a].timeBeforeGet))
     IN  /\ trace' = [trace EXCEPT ![a] = @ \o steps]
         /\ promise' = [promise EXCEPT ![a] = AfterSteps(@, steps)]
  /\ local' = [local EXCEPT ![a].data = data,
                            ![a].requestDuration = Round(now - local[a].timeBeforeGet)]
  /\ executor' = [executor EXCEPT ![a] = Fulfilled(Undefined)]
  /\ pc' = [pc EXCEPT ![a] = "done"]
  /\ UNCHANGED <<thisVars, histVars, now>>

\* The awaited promise rejects: the await throws inside the try.
fetchVASTGetRejects(a) ==
  /\ pc[a] = "awaiting"
  /\ LET steps == Caught(<<>>, "getError")
     IN  /\ trace' = [trace EXCEPT ![a] = @ \o steps]
         /\ promise' = [promise EXCEPT ![a] = AfterSteps(@, steps)]
  /\ local' = [local EXCEPT ![a].data = DataRejected]
  /\ executor' = [executor EXCEPT ![a] = Fulfilled(Undefined)]
  /\ pc' = [pc EXCEPT ![a] = "done"]
  /\ UNCHANGED <<thisVars, histVars, now>>

\* The clock advances while a call awaits the transport: the time that
\* requestDuration measures.
Tick ==
  /\ now < MaxClock
  /\ \E a \in AttemptIds : pc[a] = "awaiting"
  /\ now' = now + 1
  /\ UNCHANGED <<thisVars, histVars, attemptVars>>

\* One call of fetchVAST, every input, among calls of the other methods.
Next ==
  \/ \E o \in OptionBags : setOptions(o)
  \/ \E f \in Filters \cup NonCallables : addURLTemplateFilter(f)
  \/ removeLastURLTemplateFilter
  \/ clearURLTemplateFilters
  \/ \E r \in Requests, e \in Emitters, g \in GetCalls : fetchVAST(1, r, e, g)
  \/ \E d \in TransportResults : fetchVASTResume(1, d)
  \/ fetchVASTGetRejects(1)
  \/ Tick

Spec == Init /\ [][Next]_vars

\* Overlapping calls of fetchVAST: NumAttempts calls, each with its own url,
\* over fewer inputs (one filter, two transport results, a clock that stands
\* still), while filters are added and removed.
ConcurrentRequest(a) == [url |-> <<"u", "v", "w", "x">>[a], maxWrapperDepth |-> 10]

ConcurrentResults ==
  { DataObject([error |-> Null, xml |-> "<VAST/>", details |-> [byteLength |-> "42"]]),
    DataObject([error |-> "boom", statusCode |-> "500"]) }

NextConcurrent ==
  \/ setOptions(EmptyObj)
  \/ addURLTemplateFilter("fa")
  \/ removeLastURLTemplateFilter
  \/ clearURLTemplateFilters
  \/ \E a \in AttemptIds, e \in Emitters, g \in GetCalls :
       fetchVAST(a, ConcurrentRequest(a), e, g)
  \/ \E a \in AttemptIds, d \in ConcurrentResults : fetchVASTResume(a, d)
  \/ \E a \in AttemptIds : fetchVASTGetRejects(a)

SpecConcurrent == Init /\ [][NextConcurrent]_vars

\* The transport's promise of an awaiting call is settled in the end, and the
\* continuation of the await is a job the event loop then runs: the step
\* that ends the await is not put off for ever.
AwaitEnds(a) ==
  \/ \E d \in ConcurrentResults : fetchVASTResume(a, d)
  \/ fetchVASTGetRejects(a)

\* Overlapping calls of fetchVAST on a Fetcher that is configured at any time
\* and gets its filters before the first call.
NextFair ==
  \/ setOptions(EmptyObj)
  \/ pc[1] = "idle" /\ addURLTemplateFilter("fa")
  \/ \E a \in AttemptIds, e \in Emitters, g \in GetCalls :
       fetchVAST(a, ConcurrentRequest(a), e, g)
  \/ \E a \in AttemptIds : AwaitEnds(a)

SpecFair ==
  Init /\ [][NextFair]_vars /\ \A a \in AttemptIds : WF_vars(AwaitEnds(a))

\* ------------------------------------------------------------------ traces
\* The places in attempt a's trace of the calls of one kind.
Places(a, op) == {i \in 1..Len(trace[a]) : trace[a][i].op = op}

\* The places of the emitter calls with one event name.
Emitted(a, name) ==
  {i \in Places(a, "emit") : trace[a][i].name = name}

Resolving(a) == Emitted(a, "VAST-resolving")
Resolved(a) == Emitted(a, "VAST-resolved")
Settled(a) == Places(a, "resolve") \cup Places(a, "reject")

\* fetchVAST has been called for the record, and its locals are set.
Called(a) == pc[a] # "idle"

\* The await returned a value to the attempt.
GotResult(a) == Called(a) /\ local[a].data.kind \in {"object", "undefined"}

\* fN(...f2(f1(u))) for filters that return, written as the nested
\* application (the code loops instead).
RECURSIVE Compose(_, _)
Compose(fs, u) ==
  IF fs = <<>> THEN u ELSE FilterCall(Last(fs), Compose(Front(fs), u))

NoneThrows(fs) == \A i \in 1..Len(fs) : ~FilterThrows(fs[i])

\* ------------------------------------------------------------------ C1
\* C1: an attempt whose emitter returns and whose transport call delivers a
\* result has called the emitter exactly once with 'VAST-resolving' and
\* exactly once with 'VAST-resolved', the first before the second; no
\* attempt calls it more than once with either, and none calls it with
\* 'VAST-resolved' without an earlier 'VAST-resolving' -- for each of the
\* overlapping attempts.
C1_PairedEvents ==
  \A a \in AttemptIds :
    /\ Cardinality(Resolving(a)) <= 1
    /\ Cardinality(Resolved(a)) <= 1
    /\ \A j \in Resolved(a) : \E i \in Resolving(a) : i < j
    /\ (GotResult(a) /\ local[a].emitter = "returns") =>
         /\ Cardinality(Resolving(a)) = 1
         /\ Cardinality(Resolved(a)) = 1

\* The second call got its result while the first one is still awaiting.
C1_Witness ==
  /\ pc[1] = "awaiting"
  /\ GotResult(2) /\ local[2].emitter = "returns"
  /\ Cardinality(Resolved(2)) = 1

\* ------------------------------------------------------------------ C2
\* C2: when the transport delivered a result object and the emitter
\* returned, exactly one of resolve and reject was called, once: reject
\* with result.error itself when that is truthy, resolve with result.xml
\* otherwise, and the promise is in that state with that value.  No attempt
\* ever calls them more than once in total.
C2_SettlesOnce ==
  \A a \in AttemptIds :
    /\ Cardinality(Settled(a)) <= 1
    /\ (Called(a) /\ local[a].data.kind = "object" /\ local[a].emitter = "returns") =>
         LET obj == local[a].data.obj IN
         /\ Cardinality(Settled(a)) = 1
         /\ IF Truthy(Prop(obj, "error"))
              THEN /\ Places(a, "resolve") = {}
                   /\ promise[a] = [state |-> "rejected", value |-> obj["error"]]
              ELSE /\ Places(a, "reject") = {}
                   /\ promise[a] = [state |-> "fulfilled", value |-> Prop(obj, "xml")]

\* A result with error "boom" has rejected the promise.
C2_Witness ==
  \E a \in AttemptIds :
    /\ Called(a) /\ local[a].data.kind = "object" /\ local[a].emitter = "returns"
    /\ Prop(local[a].data.obj, "error") = "boom"
    /\ promise[a].state = "rejected"

\* ------------------------------------------------------------------ C3
\* fN(...f1(u)) for the filters registered when fetchVAST was called.
ComposedUrl(a) == Compose(local[a].filters, local[a].req.url)

\* Attempt a called each registered filter once, in order, and passed the
\* composition to urlHandler.get and to 'VAST-resolving'.
C3_Composed(a) ==
  /\ \A i \in Places(a, "get") : trace[a][i].url = ComposedUrl(a)
  /\ \A i \in Resolving(a) : trace[a][i].payload["url"] = ComposedUrl(a)
  /\ Places(a, "filter") = 1..Len(local[a].filters)
  /\ \A i \in 1..Len(local[a].filters) : trace[a][i].f = local[a].filters[i]

\* C3 as stated: with filters f1..fN registered, fetchVAST passes
\* fN(...f1(u)) to urlHandler.get and to both events, each filter called
\* exactly once, in order.
C3_FilteredUrlInBothEvents ==
  \A a \in AttemptIds :
    (Called(a) /\ Places(a, "get") # {}) =>
      /\ C3_Composed(a)
      /\ \A i \in Resolved(a) : trace[a][i].payload["url"] = ComposedUrl(a)

\* The same, the url of 'VAST-resolved' being the one of result.details
\* when the details carry one.
C3_FilteredUrl ==
  \A a \in AttemptIds :
    (Called(a) /\ Places(a, "get") # {}) =>
      /\ C3_Composed(a)
      /\ \A i \in Resolved(a) :
           trace[a][i].payload["url"] =
             IF "url" \in DOMAIN DetailsOf(local[a].data)
               THEN DetailsOf(local[a].data)["url"] ELSE ComposedUrl(a)

\* removeLastURLTemplateFilter on f1..fN leaves f1..f(N-1), which a fetch
\* then composes.
C3_RemoveLastSkipsLast ==
  (removeLastURLTemplateFilter /\ URLTemplateFilters # <<>>) =>
     /\ URLTemplateFilters' = Front(URLTemplateFilters)
     /\ NoneThrows(URLTemplateFilters') =>
          \A r \in Requests :
            ApplyFilters(URLTemplateFilters', r["url"]).url =
              Compose(Front(URLTemplateFilters), r["url"])

\* C3 (amended): with filters f1..fN registered, fetchVAST passes
\* fN(...f1(u)) to urlHandler.get and to 'VAST-resolving', and to
\* 'VAST-resolved' unless result.details has a url key, which then replaces
\* it; each filter is called exactly once, in order; after one
\* removeLastURLTemplateFilter the chain is f1..f(N-1).
C3_Composition == [](C3_FilteredUrl) /\ [][C3_RemoveLastSkipsLast]_vars

\* A fetch over the chain <<fb, fa>> asked the transport for "uba" and has
\* emitted 'VAST-resolved'.
C3_Witness ==
  \E a \in AttemptIds :
    /\ Called(a) /\ local[a].filters = <<"fb", "fa">>
    /\ \E i \in Places(a, "get") : trace[a][i].url = "uba"
    /\ Resolved(a) # {}

\* ------------------------------------------------------------------ C4
FixedKeys == {"url", "previousUrl", "wrapperDepth", "error", "duration", "statusCode"}

\* The resolver's own value for a fixed key of 'VAST-resolved'.
OwnValue(a, k) ==
  CASE k = "url" -> local[a].url
    [] k = "previousUrl" -> local[a].req.previousUrl
    [] k = "wrapperDepth" -> local[a].req.wrapperDepth
    [] k = "error" -> IF Truthy(OptProp(local[a].data, "error"))
                        THEN local[a].data.obj["error"] ELSE Null
    [] k = "duration" -> local[a].requestDuration
    [] k = "statusCode" -> IF Truthy(OptProp(local[a].data, "statusCode"))
                             THEN local[a].data.obj["statusCode"] ELSE Null

\* C4 as stated: the 'VAST-resolved' payload is the union of the fixed
\* fields and the fields of result.details, the fixed field's value winning
\* on a key collision.
C4_FixedFieldsWin ==
  \A a \in AttemptIds : \A i \in Resolved(a) :
    LET p == trace[a][i].payload
        d == DetailsOf(local[a].data)
    IN  /\ DOMAIN p = FixedKeys \cup DOMAIN d
        /\ \A k \in FixedKeys : p[k] = OwnValue(a, k)
        /\ \A k \in (DOMAIN d) \ FixedKeys : p[k] = d[k]

\* C4 (amended): the 'VAST-resolved' payload is the union of the fixed
\* fields and the fields of result.details, and on a key collision the
\* value from details wins: the payload carries every field of details
\* unchanged, and the resolver's own value only for the fixed keys that
\* details does not have.
C4_DetailsWin ==
  \A a \in AttemptIds : \A i \in Resolved(a) :
    LET p == trace[a][i].payload
        d == DetailsOf(local[a].data)
    IN  /\ DOMAIN p = FixedKeys \cup DOMAIN d
        /\ \A k \in DOMAIN d : p[k] = d[k]
        /\ \A k \in FixedKeys \ DOMAIN d : p[k] = OwnValue(a, k)

\* 'VAST-resolved' was emitted for a result whose details have all six
\* fixed keys.
C4_Witness ==
  \E a \in AttemptIds :
    /\ Resolved(a) # {}
    /\ FixedKeys \subseteq DOMAIN DetailsOf(local[a].data)

\* ------------------------------------------------------------------ C5
\* result.details.byteLength, undefined without details or without the key.
ByteLengthOf(data) ==
  IF data.kind = "object" /\ "details" \in DOMAIN data.obj
     /\ "byteLength" \in DOMAIN data.obj["details"]
    THEN data.obj["details"]["byteLength"] ELSE Undefined

\* updateEstimatedBitrate was called once in attempt a, with the byteLength
\* of the result's details and the duration measured from timeBeforeGet.
BitrateUpdated(a) ==
  /\ Cardinality(Places(a, "updateEstimatedBitrate")) = 1
  /\ \A i \in Places(a, "updateEstimatedBitrate") :
       /\ trace[a][i].byteLength = ByteLengthOf(local[a].data)
       /\ trace[a][i].duration = local[a].requestDuration
       /\ trace[a][i].duration >= 0
       /\ trace[a][i].duration <= now - local[a].timeBeforeGet

\* C5 as stated: in every attempt in which urlHandler.get completed without
\* throwing, updateEstimatedBitrate is invoked with
\* (result.details.byteLength, measured duration).
C5_BitrateAlways ==
  \A a \in AttemptIds : GotResult(a) => BitrateUpdated(a)

\* C5 (amended): in every attempt in which urlHandler.get completed without
\* throwing and the emitter did not throw when called with 'VAST-resolved',
\* updateEstimatedBitrate is invoked with (result.details.byteLength,
\* measured duration), whether result.error is set or not and whether
\* details is present or not; when the emitter threw there, it is not
\* invoked.
C5_BitrateUnlessEmitterThrew ==
  \A a \in AttemptIds :
    GotResult(a) =>
      IF local[a].emitter = "throwsOnResolved"
        THEN Places(a, "updateEstimatedBitrate") = {}
        ELSE BitrateUpdated(a)

\* On an error result without details, after the clock moved, the update
\* was called with byteLength undefined and the duration 1.
C5_Witness ==
  \E a \in AttemptIds :
    /\ GotResult(a) /\ Truthy(OptProp(local[a].data, "error"))
    /\ "details" \notin DOMAIN local[a].data.obj
    /\ \E i \in Places(a, "updateEstimatedBitrate") :
         trace[a][i].byteLength = Undefined /\ trace[a][i].duration = 1

\* ------------------------------------------------------------------ C6
\* A filter threw while attempt a applied the chain.
FilterThrew(a) ==
  \E i \in Places(a, "filter") : FilterThrows(trace[a][i].f)

\* C6: if a registered filter throws, the call of fetchVAST itself throws
\* (the caller gets no promise), and no event has been emitted nor
\* urlHandler.get called.
C6_FilterErrorReachesCaller ==
  \A a \in AttemptIds :
    FilterThrew(a) =>
      /\ promise[a].state = "none"
      /\ Places(a, "emit") = {}
      /\ Places(a, "get") = {}

\* ------------------------------------------------------------------ C7
\* The last call attempt a made is console.error with this error.
LoggedLast(a, error) ==
  /\ trace[a] # <<>>
  /\ Last(trace[a]) = LogStep(error)

\* urlHandler.get threw when attempt a called it.
GetThrew(a) == \E i \in Places(a, "get") : trace[a][i].threw

\* C7: if urlHandler.get throws synchronously or its promise rejects, the
\* exception is caught and logged, and that is all: the promise fetchVAST
\* returned stays pending, neither resolve nor reject is called, no
\* 'VAST-resolved' is emitted and updateEstimatedBitrate is not called.
C7_TransportExceptionSwallowed ==
  \A a \in AttemptIds :
    (Called(a) /\ (GetThrew(a) \/ local[a].data.kind = "rejected")) =>
      /\ LoggedLast(a, "getError")
      /\ executor[a] = Fulfilled(Undefined)
      /\ promise[a] = Pending
      /\ Settled(a) = {}
      /\ Resolved(a) = {}
      /\ Places(a, "updateEstimatedBitrate") = {}

\* The awaited promise rejected after 'VAST-resolving' was emitted.
C7_Witness ==
  \E a \in AttemptIds :
    /\ Called(a) /\ local[a].data.kind = "rejected"
    /\ Resolving(a) # {}
    /\ pc[a] = "done"

\* ------------------------------------------------------------------ C8
\* The emitter threw in attempt a.
EmitterThrew(a) == \E i \in Places(a, "emit") : trace[a][i].threw

\* C8: if the emitter throws, on 'VAST-resolving' or on 'VAST-resolved',
\* the exception is caught and logged and the promise fetchVAST returned
\* stays pending: neither resolve nor reject is called, before or after.
C8_EmitterExceptionSwallowed ==
  \A a \in AttemptIds :
    EmitterThrew(a) =>
      /\ LoggedLast(a, "emitterError")
      /\ executor[a] = Fulfilled(Undefined)
      /\ promise[a] = Pending
      /\ Settled(a) = {}

\* The emitter threw on 'VAST-resolved' for a result with error "boom".
C8_Witness ==
  \E a \in AttemptIds :
    /\ \E i \in Resolved(a) : trace[a][i].threw
    /\ OptProp(local[a].data, "error") = "boom"

\* ------------------------------------------------------------------ C9
\* A 'VAST-resolved' event with this error was emitted in attempt a before
\* the promise was settled.
ResolvedWithError(a, error) ==
  \E i \in Resolved(a) :
    /\ trace[a][i].payload["error"] = error
    /\ \A j \in Settled(a) : i < j

\* C9 as stated: a promise rejected with e follows a 'VAST-resolved' event
\* with error e, a fulfilled one a 'VAST-resolved' event with error null,
\* for every transport result.
C9_EventErrorIsOutcome ==
  \A a \in AttemptIds :
    /\ promise[a].state = "rejected" => ResolvedWithError(a, promise[a].value)
    /\ promise[a].state = "fulfilled" => ResolvedWithError(a, Null)

\* C9 (amended): a promise rejected with e follows a 'VAST-resolved' event
\* of the same attempt whose error is e, and a fulfilled one an event whose
\* error is null, unless result.details has an error key: the event then
\* carries that value as its error.
C9_EventErrorIsOutcomeOrDetails ==
  \A a \in AttemptIds :
    LET d == DetailsOf(local[a].data)
        expected(own) == IF "error" \in DOMAIN d THEN d["error"] ELSE own
    IN  /\ promise[a].state = "rejected" =>
             ResolvedWithError(a, expected(promise[a].value))
        /\ promise[a].state = "fulfilled" => ResolvedWithError(a, expected(Null))

\* The promise rejected with "boom" after a 'VAST-resolved' with that error.
C9_Witness ==
  \E a \in AttemptIds :
    /\ promise[a] = Rejected("boom")
    /\ ResolvedWithError(a, "boom")

\* ------------------------------------------------------------------ C10
\* countURLTemplateFilters() is never negative and equals the callable adds
\* minus the removals that found a filter, counted since construction or
\* the last clear.
C10_CountIsAddsMinusRemoves ==
  /\ countURLTemplateFilters >= 0
  /\ countURLTemplateFilters = nAdds - nRemoves

\* removeLastURLTemplateFilter on an empty chain leaves the count at 0.
C10_RemoveOnEmpty ==
  (removeLastURLTemplateFilter /\ countURLTemplateFilters = 0) =>
     /\ countURLTemplateFilters' = 0
     /\ UNCHANGED <<nAdds, nRemoves>>

\* C10: removeLastURLTemplateFilter on an empty chain leaves
\* countURLTemplateFilters() at 0, and after any sequence of add,
\* removeLast and clear calls the count is never negative and equals the
\* number of callable adds minus the number of removeLast calls that found
\* a non-empty chain, counted since construction or the last clear.
C10_Count == [](C10_CountIsAddsMinusRemoves) /\ [][C10_RemoveOnEmpty]_vars

\* Three callable adds and one removal have left two filters.
C10_Witness ==
  /\ nAdds = 3
  /\ nRemoves = 1
  /\ countURLTemplateFilters = 2

\* ------------------------------------------------------------------ C11
\* A call with a value that is not a function changes neither the length,
\* nor the filters, nor their order.
C11_NonCallableIgnored ==
  \A v \in NonCallables :
    addURLTemplateFilter(v) =>
      /\ URLTemplateFilters' = URLTemplateFilters
      /\ countURLTemplateFilters' = countURLTemplateFilters

\* A call with a function puts it after the filters there were, which keep
\* their places, and leaves the transport and the options alone.
C11_CallableAppended ==
  \A f \in Filters :
    addURLTemplateFilter(f) =>
      /\ Len(URLTemplateFilters') = Len(URLTemplateFilters) + 1
      /\ Last(URLTemplateFilters') = f
      /\ Front(URLTemplateFilters') = URLTemplateFilters
      /\ UNCHANGED <<urlHandler, fetchingOptions>>

\* The call with a value that is not a function is always possible: it has
\* no outcome other than returning.
C11_NonCallableReturns ==
  \A v \in NonCallables : ENABLED addURLTemplateFilter(v)

\* C11: addURLTemplateFilter with a non-callable argument raises no error
\* and leaves the filter chain unchanged (same length, same filters, same
\* order); with a function it appends that function at the tail and changes
\* nothing else in the chain.
C11_AddFrame ==
  /\ [](C11_NonCallableReturns)
  /\ [][C11_NonCallableIgnored /\ C11_CallableAppended]_vars

\* "fb" was added after "fa" and stands behind it.
C11_Witness ==
  /\ URLTemplateFilters = <<"fa", "fb">>
  /\ nAdds = 2
  /\ nRemoves = 0

\* ------------------------------------------------------------------ C12
\* The urlHandler and fetchingOptions that setOptions(options) leaves on a
\* Fetcher that was never configured: nothing of a former configuration is
\* in them.
C12_Alone(options) ==
  [urlHandler |-> OrElse(Prop(options, "urlHandler"),
                         OrElse(Prop(options, "urlhandler"), "default")),
   fetchingOptions |-> [defined |-> TRUE,
                        timeout |-> TimeoutOf(options),
                        withCredentials |-> Truthy(Prop(options, "withCredentials"))]]

\* The configuration as one value.
C12_Configuration == [urlHandler |-> urlHandler, fetchingOptions |-> fetchingOptions]

\* setOptions(o2) in any state, whatever was configured before, leaves what
\* setOptions(o2) alone leaves, and does not touch the filter chain.
C12_Replaces ==
  \A o2 \in OptionBags :
    setOptions(o2) =>
      /\ C12_Configuration' = C12_Alone(o2)
      /\ UNCHANGED URLTemplateFilters

\* setOptions(o) where setOptions(o) has just configured changes nothing.
C12_Idempotent ==
  \A o \in OptionBags :
    (setOptions(o) /\ C12_Configuration = C12_Alone(o)) =>
      UNCHANGED <<urlHandler, fetchingOptions, URLTemplateFilters>>

\* C12: setOptions fully replaces the prior configuration with no merging:
\* urlHandler and fetchingOptions after setOptions(o1); setOptions(o2) equal
\* those after setOptions(o2) alone (a field given in o1 and absent from o2
\* falls back to its default), setOptions(o); setOptions(o) equals
\* setOptions(o), and setOptions never changes the filter chain.
C12_FullReplacement == [][C12_Replaces /\ C12_Idempotent]_vars

\* A call of fetchVAST passed the transport a timeout of 5000 and a custom
\* transport was configured then; setOptions({}) has run since, while a
\* filter was registered, and timeout, credentials and transport are back at
\* their defaults.
C12_Witness ==
  /\ pc[1] = "awaiting"
  /\ \E i \in Places(1, "get") : trace[1][i].options.timeout = 5000
  /\ C12_Configuration = C12_Alone(EmptyObj)
  /\ fetchingOptions.timeout = DEFAULT_TIMEOUT
  /\ urlHandler = "default"
  /\ URLTemplateFilters # <<>>

\* ------------------------------------------------------------------ C13
\* The transport the caller supplied in the bag, under either spelling of
\* the key the code reads, if any.
C13_Supplied(options) ==
  IF "urlHandler" \in DOMAIN options THEN options["urlHandler"]
  ELSE IF "urlhandler" \in DOMAIN options THEN options["urlhandler"]
  ELSE Undefined

\* What the claim expects after setOptions(options), for the non-negative
\* timeouts of OptionBags.
C13_Expected(options) ==
  /\ fetchingOptions'.timeout =
       IF "timeout" \in DOMAIN options /\ options["timeout"] > 0
         THEN options["timeout"] ELSE DEFAULT_TIMEOUT
  /\ fetchingOptions'.timeout > 0
  /\ fetchingOptions'.withCredentials \in BOOLEAN
  /\ fetchingOptions'.withCredentials =
       ("withCredentials" \in DOMAIN options /\ Truthy(options["withCredentials"]))
  /\ urlHandler' =
       IF C13_Supplied(options) # Undefined THEN C13_Supplied(options) ELSE "default"

\* setOptions with no options, with a truthy non-boolean for
\* withCredentials, and with a timeout of 0.
C13_Examples ==
  /\ setOptions(EmptyObj) =>
       /\ fetchingOptions'.timeout = 120000
       /\ fetchingOptions'.withCredentials = FALSE
       /\ urlHandler' = "default"
  /\ setOptions([timeout |-> 5000, withCredentials |-> "yes", urlHandler |-> "custom"]) =>
       /\ fetchingOptions'.timeout = 5000
       /\ fetchingOptions'.withCredentials = TRUE
       /\ urlHandler' = "custom"
  /\ setOptions([timeout |-> 0, withCredentials |-> "false", urlhandler |-> "custom2"]) =>
       /\ fetchingOptions'.timeout = 120000
       /\ fetchingOptions'.withCredentials = FALSE

\* C13: after setOptions(options), fetchingOptions.timeout is
\* options.timeout when that is truthy and DEFAULT_TIMEOUT when it is
\* missing or falsy (so always > 0 for non-negative inputs),
\* fetchingOptions.withCredentials is a strict boolean equal to the
\* truthiness of options.withCredentials (no options -> false, "yes" ->
\* true), and the transport is the one the caller supplied if any, else
\* the default one.
C13_Configured ==
  [][(\A o \in OptionBags : setOptions(o) => C13_Expected(o)) /\ C13_Examples]_vars

\* setOptions ran with a timeout of 0 and a false withCredentials: the
\* timeout is the default, the flag is the boolean false, the transport is
\* the caller's.
C13_Witness ==
  /\ fetchingOptions = [defined |-> TRUE, timeout |-> DEFAULT_TIMEOUT,
                        withCredentials |-> FALSE]
  /\ urlHandler = "custom2"

\* ------------------------------------------------------------------ C14
\* The place of a call in the order of one attempt; console.error has none.
C14_Rank(step) ==
  CASE step.op = "filter" -> 1
    [] step.op = "emit" /\ step.name = "VAST-resolving" -> 2
    [] step.op = "get" -> 3
    [] step.op = "emit" /\ step.name = "VAST-resolved" -> 4
    [] step.op = "updateEstimatedBitrate" -> 5
    [] step.op \in {"resolve", "reject"} -> 6
    [] OTHER -> 0

\* The calls of the attempt that have a place in the order.
C14_Ordered(a) == {i \in 1..Len(trace[a]) : C14_Rank(trace[a][i]) > 0}

\* Nothing throws and the transport delivers a result object.
C14_NormalPath(a) ==
  /\ Called(a)
  /\ NoneThrows(local[a].filters)
  /\ local[a].emitter = "returns"
  /\ local[a].data.kind = "object"

\* C14: within one attempt the steps occur in a fixed order: all filters
\* applied, then 'VAST-resolving' emitted (before fetchVAST returns to its
\* caller, so an attempt that awaits the transport has emitted it and has
\* invoked urlHandler.get), then urlHandler.get, then 'VAST-resolved', then
\* updateEstimatedBitrate, then the promise settled; on the path on which
\* nothing throws none is skipped; no event is emitted after the promise
\* has settled.
C14_FixedOrder ==
  \A a \in AttemptIds :
    /\ \A i, j \in C14_Ordered(a) :
         i < j => \/ C14_Rank(trace[a][i]) < C14_Rank(trace[a][j])
                  \/ C14_Rank(trace[a][i]) = 1 /\ C14_Rank(trace[a][j]) = 1
    /\ pc[a] = "awaiting" =>
         /\ Cardinality(Places(a, "filter")) = Len(local[a].filters)
         /\ Cardinality(Resolving(a)) = 1
         /\ Cardinality(Places(a, "get")) = 1
         /\ Resolved(a) = {}
    /\ C14_NormalPath(a) =>
         /\ Len(trace[a]) = Len(local[a].filters) + 5
         /\ \A i \in 1..Len(trace[a]) :
              C14_Rank(trace[a][i]) =
                IF i <= Len(local[a].filters) THEN 1 ELSE i - Len(local[a].filters) + 1
    /\ \A i \in Places(a, "emit"), j \in Settled(a) : i < j
    /\ promise[a].state \in {"fulfilled", "rejected"} => Settled(a) # {}

\* Two filters were applied, and the calls that follow them were all made:
\* the promise is fulfilled.
C14_Witness ==
  /\ C14_NormalPath(1)
  /\ Len(local[1].filters) = 2
  /\ Len(trace[1]) = 7
  /\ promise[1].state = "fulfilled"

\* ------------------------------------------------------------------ C15
\* The call awaits the transport: setOptions had been called, no filter
\* threw, 'VAST-resolving' was emitted and urlHandler.get returned a
\* promise; the emitter is one that does not throw.
C15_AwaitingNoThrow(a) ==
  /\ pc[a] = "awaiting"
  /\ local[a].emitter = "returns"

\* The promise fetchVAST returned is fulfilled or rejected.
C15_PromiseSettled(a) == promise[a].state \in {"fulfilled", "rejected"}

\* The transport's promise did not fulfil: it rejected.
C15_TransportFailed(a) == Called(a) /\ local[a].data.kind = "rejected"

\* C15: on a Fetcher on which setOptions has been called, if no filter and
\* no emitter call throws and the promise returned by urlHandler.get
\* fulfils with a result object, the promise returned by fetchVAST is
\* eventually settled, for each of the overlapping calls: a call that
\* awaits the transport leads to a settled promise unless the transport's
\* promise rejects.
C15_EventuallySettled ==
  \A a \in AttemptIds :
    C15_AwaitingNoThrow(a) ~> (C15_PromiseSettled(a) \/ C15_TransportFailed(a))

\* The second call was settled by its result while the first still awaits.
C15_Witness ==
  /\ pc[1] = "awaiting"
  /\ pc[2] = "done"
  /\ local[2].emitter = "returns"
  /\ local[2].data.kind = "object"
  /\ local[2].url = "va"
  /\ C15_PromiseSettled(2)

\* ------------------------------------------------------------------ C16
\* A step of some call of fetchVAST: its start, or the end of its await.
\* These are the steps that change the record of a call.
C16_FetchStep == attemptVars' # attemptVars

\* Call a of fetchVAST starts: its filters are applied in this step.
C16_Starts(a) == pc[a] = "idle" /\ pc'[a] # "idle"

\* A step of fetchVAST changes neither the chain, nor its count, nor the
\* transport, nor the options; the filters a starting call applied are the
\* chain as it was before and as it is after.
C16_ChainKept ==
  /\ C16_FetchStep =>
       /\ URLTemplateFilters' = URLTemplateFilters
       /\ countURLTemplateFilters' = countURLTemplateFilters
       /\ urlHandler' = urlHandler
       /\ fetchingOptions' = fetchingOptions
  /\ \A a \in AttemptIds :
       C16_Starts(a) =>
         /\ local'[a].filters = URLTemplateFilters
         /\ local'[a].filters = URLTemplateFilters'
         /\ Cardinality({i \in 1..Len(trace'[a]) : trace'[a][i].op = "filter"})
              <= Len(URLTemplateFilters')

\* C16: fetchVAST leaves the filter chain unchanged: for every call,
\* whatever its outcome (fulfilled, rejected or unsettled), the sequence of
\* registered filters and countURLTemplateFilters() right after the filters
\* were applied equal those right before, and fetchVAST never modifies
\* urlHandler or fetchingOptions.
C16_FetchFrame == [][C16_ChainKept]_vars

\* One call was fulfilled and one ended unsettled; both applied the filter
\* that is still the chain.
C16_Witness ==
  /\ pc[1] = "done" /\ pc[2] = "done"
  /\ promise[1].state = "fulfilled"
  /\ promise[2] = Pending
  /\ local[1].filters = <<"fa">>
  /\ local[2].filters = <<"fa">>
  /\ Places(1, "filter") # {} /\ Places(2, "filter") # {}
  /\ URLTemplateFilters = <<"fa">>
  /\ fetchingOptions.defined

\* ------------------------------------------------------------------ C17
\* The url that was passed to urlHandler.get is the url of every event of
\* the call: of 'VAST-resolving', and of 'VAST-resolved' as far as the fixed
\* field goes (a url key of result.details takes its place in the payload).
\* The timeout announced in 'VAST-resolving' is that of the options passed
\* to urlHandler.get.
C17_OneUrl ==
  \A a \in AttemptIds :
    \A g \in Places(a, "get") :
      /\ trace[a][g].url = local[a].url
      /\ \A i \in Resolving(a) :
           /\ trace[a][i].payload.url = trace[a][g].url
           /\ trace[a][i].payload.timeout = trace[a][g].options.timeout
      /\ \A j \in Resolved(a) :
           /\ ResolvedFields(local[a].url, local[a].req, local[a].data,
                             local[a].requestDuration).url = trace[a][g].url
           /\ "url" \notin DOMAIN DetailsOf(local[a].data) =>
                trace[a][j].payload.url = trace[a][g].url

\* The calls a call of fetchVAST has made stay as they are, and so does its
\* url; the options passed to urlHandler.get are this.fetchingOptions of the
\* moment the call started.
C17_FixedAtStart ==
  \A a \in AttemptIds :
    /\ pc[a] # "idle" =>
         /\ local'[a].url = local[a].url
         /\ Len(trace'[a]) >= Len(trace[a])
         /\ SubSeq(trace'[a], 1, Len(trace[a])) = trace[a]
    /\ (pc[a] = "idle" /\ pc'[a] # "idle") =>
         \A g \in {i \in 1..Len(trace'[a]) : trace'[a][i].op = "get"} :
           trace'[a][g].options = fetchingOptions

C18_NothingDone(a) ==
  /\ Resolving(a) = {}
  /\ Resolved(a) = {}
  /\ Places(a, "get") = {}
  /\ Places(a, "updateEstimatedBitrate") = {}
  /\ Settled(a) = {}
  /\ promise[a] = Pending

\* A call that starts while this.fetchingOptions is undefined ends at once
\* having done nothing; unless a filter threw before, the TypeError was
\* caught and logged.  A call that has ended stays as it is.
C18_EndsAtOnce ==
  \A a \in AttemptIds :
    /\ (pc[a] = "idle" /\ pc'[a] # "idle" /\ ~fetchingOptions.defined) =>
         /\ pc'[a] = "done"
         /\ C18_NothingDone(a)'
         /\ NoneThrows(URLTemplateFilters) =>
              /\ trace'[a][Len(trace'[a])] = LogStep("TypeError")
              /\ executor'[a] = Fulfilled(Undefined)
    /\ pc[a] = "done" =>
         /\ pc'[a] = "done"
         /\ trace'[a] = trace[a]
         /\ promise'[a] = promise[a]

\* A call that ended without 'VAST-resolving' did nothing and its promise
\* is pending, whatever is configured since.
C18_StaysUnsettled ==
  \A a \in AttemptIds :
    (pc[a] = "done" /\ Resolving(a) = {}) => C18_NothingDone(a)

\* C18: a call of fetchVAST on a Fetcher on which setOptions has never been
\* called emits neither 'VAST-resolving' nor 'VAST-resolved', invokes no
\* transport, does not call updateEstimatedBitrate, and its promise is
\* never settled: the failure to read the configured timeout is caught and
\* only logged.
C18_UnconfiguredDoesNothing == [](C18_StaysUnsettled) /\ [][C18_EndsAtOnce]_vars

\* The call applied a filter, logged the TypeError and is over; setOptions
\* has still not been called.
C18_Witness ==
  /\ ~fetchingOptions.defined
  /\ pc[1] = "done"
  /\ Places(1, "filter") # {}
  /\ LoggedLast(1, "TypeError")
  /\ C18_NothingDone(1)

\* ------------------------------------------------------------------ C19
\* The awaited promise fulfilled with undefined (null behaves alike: both
\* give undefined under ?. and throw on a property read).
C19_NoResultObject(a) == Called(a) /\ local[a].data.kind = "undefined"

\* 'VAST-resolved' was emitted once, with error null and statusCode null.
C19_ResolvedWithNulls(a) ==
  /\ Cardinality(Resolved(a)) = 1
  /\ \A j \in Resolved(a) :
       /\ trace[a][j].payload.error = Null
       /\ trace[a][j].payload.statusCode = Null
       /\ trace[a][j].payload.url = local[a].url

\* updateEstimatedBitrate was called once, after 'VAST-resolved', with
\* byteLength undefined and the measured duration.
C19_UpdatedWithUndefined(a) ==
  /\ Cardinality(Places(a, "updateEstimatedBitrate")) = 1
  /\ \A k \in Places(a, "updateEstimatedBitrate") :
       /\ trace[a][k].byteLength = Undefined
       /\ trace[a][k].duration = local[a].requestDuration
       /\ \A j \in Resolved(a) : j < k

\* C19 as stated: when urlHandler.get fulfils with null or undefined, the
\* call still emits 'VAST-resolved' with error null and statusCode null
\* and still calls updateEstimatedBitrate with byteLength undefined, and
\* the promise is never settled.
C19_NullishStillUpdates ==
  \A a \in AttemptIds :
    C19_NoResultObject(a) =>
      /\ C19_ResolvedWithNulls(a)
      /\ C19_UpdatedWithUndefined(a)
      /\ Settled(a) = {}
      /\ promise[a] = Pending

\* C19 (amended): when urlHandler.get fulfils with null or undefined, the
\* call still emits 'VAST-resolved' with error null and statusCode null;
\* if the emitter returns from that call, updateEstimatedBitrate is still
\* called with byteLength undefined and the TypeError of reading
\* data.error is then caught and logged; if the emitter throws there,
\* updateEstimatedBitrate is not called.  Either way the promise returned
\* by fetchVAST is never settled, neither fulfilled with undefined nor
\* rejected.
C19_NullishResult ==
  \A a \in AttemptIds :
    C19_NoResultObject(a) =>
      /\ pc[a] = "done"
      /\ C19_ResolvedWithNulls(a)
      /\ IF local[a].emitter = "throwsOnResolved"
           THEN /\ Places(a, "updateEstimatedBitrate") = {}
                /\ LoggedLast(a, "emitterError")
           ELSE /\ C19_UpdatedWithUndefined(a)
                /\ LoggedLast(a, "TypeError")
      /\ Settled(a) = {}
      /\ promise[a] = Pending

\* The transport fulfilled with undefined after the clock moved: the update
\* was called with byteLength undefined and the duration 1, the TypeError
\* was logged and the promise is pending.
C19_Witness ==
  /\ C19_NoResultObject(1)
  /\ local[1].emitter = "returns"
  /\ \E k \in Places(1, "updateEstimatedBitrate") :
       trace[1][k] = UpdateStep(Undefined, 1)
  /\ LoggedLast(1, "TypeError")
  /\ promise[1] = Pending

\* ------------------------------------------------------------------ C20
\* The emitter threw when the call called it with 'VAST-resolving'.
C20_ThrewOnResolving(a) == \E i \in Resolving(a) : trace[a][i].threw

\* The transport call of the attempt was made: urlHandler.get was invoked
\* and returned a promise.
C20_TransportCalled(a) == \E g \in Places(a, "get") : ~trace[a][g].threw

\* C20: if the emitter throws when called with 'VAST-resolving',
\* urlHandler.get is never invoked for that call, no 'VAST-resolved' is
\* emitted and updateEstimatedBitrate is not called; 'VAST-resolved' is
\* never emitted for a call whose transport call was not made -- for each
\* of the overlapping calls.
C20_NoTransportNoResolved ==
  \A a \in AttemptIds :
    /\ C20_ThrewOnResolving(a) =>
         /\ pc[a] = "done"
         /\ Places(a, "get") = {}
         /\ Resolved(a) = {}
         /\ Places(a, "updateEstimatedBitrate") = {}
    /\ Resolved(a) # {} =>
         /\ C20_TransportCalled(a)
         /\ \A j \in Resolved(a) : \E g \in Places(a, "get") : g < j

\* The emitter threw on 'VAST-resolving' in the first call, which ended
\* there, after its filter; the second call, with an emitter that returns,
\* made its transport call and emitted 'VAST-resolved'.
C20_Witness ==
  /\ C20_ThrewOnResolving(1)
  /\ Places(1, "filter") # {}
  /\ LoggedLast(1, "emitterError")
  /\ Places(1, "get") = {}
  /\ C20_TransportCalled(2)
  /\ Resolved(2) # {}

====
